---- MODULE Spec2Model ----
(***************************************************************************)
(* Northern Powergrid power-cut integration: the data update coordinator   *)
(* (fetch, decode, filter by postcode, cache) and the sensor entities that *)
(* project the cached records (custom_components/.../sensor.py).           *)
(*                                                                         *)
(* Python strings are sequences of one-character strings, so that upper(), *)
(* replace(), the substring test and string comparison are computed.       *)
(* Python values are records [t, s, n]: t is the type, s the characters of *)
(* a str, n the number of an int.                                          *)
(***************************************************************************)
EXTENDS Integers, Sequences, FiniteSets, TLC

\* Largest number of elements in one API payload array.
MaxRecords == 2

\* How many times the version script is run in one behaviour.
MaxRuns == 2

----------------------------------------------------------------------------
\* Characters and strings

\* The characters that occur in the payloads, in code-point order.
Alphabet ==
    << " ", "+", "-", "0", "1", "2", "3", "4", "5", "6", "7", "8", "9", ":",
       "A", "B", "E", "N", "O", "S", "T", "Z", "a", "b", "e", "n", "o", "s" >>

Ord(c) == CHOOSE i \in 1..Len(Alphabet) : Alphabet[i] = c

\* str.upper() on one character.
UpperChar(c) ==
    CASE c = "a" -> "A"
      [] c = "b" -> "B"
      [] c = "e" -> "E"
      [] c = "n" -> "N"
      [] c = "o" -> "O"
      [] c = "s" -> "S"
      [] OTHER -> c

\* str.upper()
Upper(s) == [i \in 1..Len(s) |-> UpperChar(s[i])]

\* str.replace(" ", "")
RECURSIVE RemoveSpaces(_)
RemoveSpaces(s) ==
    IF s = <<>> THEN <<>>
    ELSE IF Head(s) = " " THEN RemoveSpaces(Tail(s))
    ELSE <<Head(s)>> \o RemoveSpaces(Tail(s))

\* postcode.upper().replace(" ", "")
Normalize(s) == RemoveSpaces(Upper(s))

\* Contains with == written for in.
Contains_equal(s, p) == s = p

\* p in s  (substring test on str)
Contains(s, p) ==
    \E k \in 0..(Len(s) - Len(p)) : SubSeq(s, k + 1, k + Len(p)) = p

\* a < b on str: code points compared left to right, a proper prefix is less.
RECURSIVE StrLess(_, _)
StrLess(a, b) ==
    IF b = <<>> THEN FALSE
    ELSE IF a = <<>> THEN TRUE
    ELSE IF Head(a) = Head(b) THEN StrLess(Tail(a), Tail(b))
    ELSE Ord(Head(a)) < Ord(Head(b))

----------------------------------------------------------------------------
\* Python values

PyStr(s) == [t |-> "str", s |-> s, n |-> 0]
PyInt(n) == [t |-> "int", s |-> <<>>, n |-> n]
PyNone == [t |-> "None", s |-> <<>>, n |-> 0]
\* A key the dict does not hold.
Absent == [t |-> "absent", s |-> <<>>, n |-> 0]
\* An exception leaving a property or a call; s holds the exception's class.
Raised(e) == [t |-> "raise", s |-> <<e>>, n |-> 0]

\* bool(v)
Truthy(v) ==
    CASE v.t = "str" -> v.s # <<>>
      [] v.t = "int" -> v.n # 0
      [] OTHER -> FALSE

\* dict.get(key): None for a missing key.
Get(v) == IF v.t = "absent" THEN PyNone ELSE v

\* dict.get(key, default)
GetOr(v, default) == IF v.t = "absent" THEN default ELSE v

----------------------------------------------------------------------------
\* The API payload

\* One decoded JSON object of the payload array: a power cut and its keys.
PowerCut(ref, postcode, customers, status, reason, nature, logged, est) ==
    [ t |-> "dict",
      Reference |-> ref,
      Postcode |-> postcode,
      TotalConfirmedPowerCut |-> customers,
      CustomerStageSequenceMessage |-> status,
      Reason |-> reason,
      NatureOfOutage |-> nature,
      LoggedTime |-> logged,
      EstimatedTimeTillResolution |-> est ]

\* An element that is not a JSON object (a number, a string, a key of a
\* top-level object): it has no keys and no get().
NonObject(type) ==
    [ t |-> type,
      Reference |-> Absent,
      Postcode |-> Absent,
      TotalConfirmedPowerCut |-> Absent,
      CustomerStageSequenceMessage |-> Absent,
      Reason |-> Absent,
      NatureOfOutage |-> Absent,
      LoggedTime |-> Absent,
      EstimatedTimeTillResolution |-> Absent ]

\* A decoded JSON document: its Python type and what iterating it yields
\* (the elements of a list, the keys of a dict, the characters of a str).
Doc(type, items) == [t |-> type, items |-> items]

\* The answer of one GET: the error raised while fetching or decoding
\* ("none" when the body decodes), and the decoded document.
Response(error, doc) == [error |-> error, json |-> doc]

\* The outcome of one call of _async_update_data: what it raised ("none" when
\* it returned), the message of the UpdateFailed raised, the list returned,
\* and the value of self._last_known_data after the call.
Outcome(raised, msg, value, last_known) ==
    [raised |-> raised, msg |-> msg, value |-> value, last_known |-> last_known]

\* What the caller sees of an outcome: the exception and its message.
Signal(o) == [raised |-> o.raised, msg |-> o.msg]

----------------------------------------------------------------------------
\* PowerCutDataUpdateCoordinator

\* The for loop ending one element early: the last element is never looked at.
RECURSIVE FilterLoop_stops_before_last(_, _, _, _)
FilterLoop_stops_before_last(items, i, postcode, filtered) ==
    IF i >= Len(items) THEN [exc |-> "none", filtered |-> filtered]
    ELSE LET power_cut == items[i] IN
         IF power_cut.t # "dict"
         THEN [exc |-> "AttributeError", filtered |-> filtered]
         ELSE IF Truthy(Get(power_cut.Postcode))
         THEN IF power_cut.Postcode.t # "str"
              THEN [exc |-> "AttributeError", filtered |-> filtered]
              ELSE LET api_postcode == Normalize(power_cut.Postcode.s) IN
                   IF Contains(api_postcode, postcode)
                   THEN FilterLoop_stops_before_last(items, i + 1, postcode,
                                                     Append(filtered, power_cut))
                   ELSE FilterLoop_stops_before_last(items, i + 1, postcode,
                                                     filtered)
         ELSE FilterLoop_stops_before_last(items, i + 1, postcode, filtered)

\* The body of the for loop, for the elements from index i on; filtered is
\* the list built so far.  Returns the exception raised ("none") and the list.
RECURSIVE FilterLoop(_, _, _, _)
FilterLoop(items, i, postcode, filtered) ==
    IF i > Len(items) THEN [exc |-> "none", filtered |-> filtered]
    ELSE LET power_cut == items[i] IN
         IF power_cut.t # "dict"
         THEN [exc |-> "AttributeError", filtered |-> filtered]
         ELSE IF Truthy(Get(power_cut.Postcode))
         THEN IF power_cut.Postcode.t # "str"
              THEN [exc |-> "AttributeError", filtered |-> filtered]
              ELSE LET api_postcode == Normalize(power_cut.Postcode.s) IN
                   IF Contains(api_postcode, postcode)
                   THEN FilterLoop(items, i + 1, postcode,
                                   Append(filtered, power_cut))
                   ELSE FilterLoop(items, i + 1, postcode, filtered)
         ELSE FilterLoop(items, i + 1, postcode, filtered)

\* The try block: session.get, response.text, json.loads, the filter loop.
TryBlock(response, postcode) ==
    IF response.error # "none"
    THEN [exc |-> response.error, filtered |-> <<>>]
    ELSE IF response.json.t \in {"None", "int"}
    THEN [exc |-> "TypeError", filtered |-> <<>>]
    ELSE FilterLoop(response.json.items, 1, postcode, <<>>)

\* ExceptClauses without the except Exception clause.
ExceptClauses_listed_only(exc) ==
    IF exc \in {"TimeoutError", "ClientError", "JSONDecodeError"}
    THEN [raised |-> "UpdateFailed", msg |-> "Error communicating with API"]
    ELSE [raised |-> exc, msg |-> ""]

\* The two except clauses: the exception that leaves _async_update_data.
ExceptClauses(exc) ==
    IF exc \in {"TimeoutError", "ClientError", "JSONDecodeError"}
    THEN [raised |-> "UpdateFailed", msg |-> "Error communicating with API"]
    ELSE [raised |-> "UpdateFailed", msg |-> "Unexpected error"]

\* _async_update_data with self._last_known_data assigned before the loop,
\* so that a failing cycle leaves the list built so far in it.
async_update_data_early_publish(response, postcode, last_known) ==
    LET body == TryBlock(response, postcode) IN
    IF body.exc = "none"
    THEN Outcome("none", "", body.filtered, body.filtered)
    ELSE LET e == ExceptClauses(body.exc) IN
         Outcome(e.raised, e.msg, <<>>,
                 IF response.error = "none" THEN body.filtered ELSE last_known)

\* _async_update_data with self.postcode = postcode and
\* self._last_known_data = last_known.
async_update_data(response, postcode, last_known) ==
    LET body == TryBlock(response, postcode) IN
    IF body.exc = "none"
    THEN Outcome("none", "", body.filtered, body.filtered)
    ELSE LET e == ExceptClauses(body.exc) IN
         Outcome(e.raised, e.msg, <<>>, last_known)

----------------------------------------------------------------------------
\* The inputs: configured postcodes and API responses

NE1_1AA == <<"N", "E", "1", " ", "1", "A", "A">>
NE11AA == <<"N", "E", "1", "1", "A", "A">>
NE2_2BB == <<"N", "E", "2", " ", "2", "B", "B">>
ne1_1aab == <<"n", "e", "1", " ", "1", "a", "a", "b">>
ne2_2bb == <<"n", "e", "2", " ", "2", "b", "b">>

\* "2024-01-01T09:00:00Z"
T_0101_09Z ==
    << "2", "0", "2", "4", "-", "0", "1", "-", "0", "1", "T",
       "0", "9", ":", "0", "0", ":", "0", "0", "Z" >>
\* "2024-01-02T09:00:00Z"
T_0102_09Z ==
    << "2", "0", "2", "4", "-", "0", "1", "-", "0", "2", "T",
       "0", "9", ":", "0", "0", ":", "0", "0", "Z" >>
\* "2024-01-01T10:00:00Z"
T_0101_10Z ==
    << "2", "0", "2", "4", "-", "0", "1", "-", "0", "1", "T",
       "1", "0", ":", "0", "0", ":", "0", "0", "Z" >>
\* "2024-01-01 09:00" (a space as separator, no seconds, no offset)
T_0101_09_naive ==
    << "2", "0", "2", "4", "-", "0", "1", "-", "0", "1", " ",
       "0", "9", ":", "0", "0" >>
\* "2023-02-29T10:00:00Z" (no such day)
T_0229_bad ==
    << "2", "0", "2", "3", "-", "0", "2", "-", "2", "9", "T",
       "1", "0", ":", "0", "0", ":", "0", "0", "Z" >>
\* "soon"
T_soon == <<"s", "o", "o", "n">>

\* The power cuts the API may list.
Cut1 == PowerCut(PyStr(<<"A">>), PyStr(NE1_1AA), PyInt(12), PyStr(<<"a">>),
                 PyStr(<<"b">>), PyStr(<<"e">>),
                 PyStr(T_0101_09Z), PyStr(T_0101_10Z))
Cut2 == PowerCut(PyStr(<<"B">>), PyStr(NE2_2BB), PyInt(3), PyStr(<<"b">>),
                 PyStr(<<"a">>), PyStr(<<"n">>),
                 PyStr(T_0102_09Z), PyStr(T_0101_09_naive))
Cut3 == PowerCut(PyStr(<<"E">>), PyStr(ne1_1aab), PyInt(0), PyStr(<<"e">>),
                 Absent, PyStr(<<"o">>),
                 PyStr(T_0102_09Z), PyStr(T_soon))
Cut4 == PowerCut(Absent, PyStr(NE11AA), Absent, Absent,
                 PyStr(<<"o">>), Absent,
                 Absent, Absent)
\* No Postcode key.
Cut5 == PowerCut(PyStr(<<"N">>), Absent, PyInt(7), PyStr(<<"n">>),
                 PyStr(<<"s">>), PyStr(<<"a">>),
                 PyStr(T_0102_09Z), PyStr(T_0101_10Z))
\* Logged at the same time as Cut1.
Cut6 == PowerCut(PyStr(<<"Z">>), PyStr(NE1_1AA), PyInt(1), PyStr(<<"s">>),
                 PyStr(<<"n">>), PyStr(<<"b">>),
                 PyStr(T_0101_09Z), PyStr(T_0229_bad))
\* Timestamps that are JSON numbers.
Cut7 == PowerCut(PyStr(<<"T">>), PyStr(NE1_1AA), PyInt(2), PyStr(<<"o">>),
                 PyStr(<<"e">>), PyStr(<<"s">>),
                 PyInt(1704103200), PyInt(1704103200))
\* A Postcode that is a JSON number.
Cut8 == PowerCut(PyStr(<<"O">>), PyInt(11), PyInt(2), PyStr(<<"o">>),
                 PyStr(<<"e">>), PyStr(<<"s">>),
                 PyStr(T_0101_09Z), Absent)
\* An empty Postcode.
Cut9 == PowerCut(PyStr(<<"S">>), PyStr(<<>>), PyInt(2), PyStr(<<"o">>),
                 PyStr(<<"e">>), PyStr(<<"s">>),
                 PyStr(T_0101_09Z), Absent)

\* The power cuts every array of at most MaxRecords elements is built from.
ListedCuts == {Cut1, Cut2, Cut3, Cut4}

\* All sequences over S of length at most n.
SeqsUpTo(S, n) == UNION {[1..k -> S] : k \in 0..n}

\* Payloads that are arrays of objects with string fields.
ArrayDocs == {Doc("list", items) : items \in SeqsUpTo(ListedCuts, MaxRecords)}

\* Further arrays of objects: equal LoggedTime in both orders, numeric
\* timestamps alone and beside string ones, a missing and an empty Postcode.
ExtraDocs ==
    { Doc("list", <<Cut1, Cut6>>),
      Doc("list", <<Cut6, Cut1>>),
      Doc("list", <<Cut7>>),
      Doc("list", <<Cut1, Cut7>>),
      Doc("list", <<Cut5, Cut1>>),
      Doc("list", <<Cut9, Cut3>>) }

\* Payloads that are valid JSON but not arrays of objects with a string
\* Postcode: null, a number, {}, an object with a key, "", a string, an array
\* holding a number, an array whose object has a number as Postcode.
OddDocs ==
    { Doc("None", <<>>),
      Doc("int", <<>>),
      Doc("dict", <<>>),
      Doc("dict", <<NonObject("str")>>),
      Doc("str", <<>>),
      Doc("str", <<NonObject("str"), NonObject("str")>>),
      Doc("list", <<Cut1, NonObject("int")>>),
      Doc("list", <<Cut1, Cut8>>) }

\* What one GET may end with.
Responses ==
    {Response(e, Doc("None", <<>>)) :
        e \in {"TimeoutError", "ClientError", "JSONDecodeError"}}
    \cup {Response("none", d) : d \in ArrayDocs \cup ExtraDocs \cup OddDocs}

\* The postcodes of the config entry.
ConfigPostcodes == {NE1_1AA, ne2_2bb}

----------------------------------------------------------------------------
\* State

VARIABLES
    pc,                   \* where async_setup_entry is: "setup", "sleep", "running"
    postcode,             \* coordinator.postcode
    data,                 \* coordinator.data (None, or the list last returned)
    last_update_success,  \* coordinator.last_update_success
    last_known_data,      \* coordinator._last_known_data
    response,             \* the answer to the GET of the latest refresh
    outcome,              \* what the latest _async_update_data raised
    children,             \* number of power cuts given per-index entities
    flow,                 \* what async_step_user of the config flow last returned
    configured,           \* the unique ids of the config entries created
    task,                 \* where the running _async_update_data is, and its locals
    seen,                 \* what the entities' properties returned when last read
    script                \* the process of bump_version.py and the two files

vars == << pc, postcode, data, last_update_success, last_known_data,
           response, outcome, children, flow, configured, task, seen,
           script >>

\* The coordinator's fields and the answer to its latest GET.
coordinator_vars == << postcode, data, last_update_success, last_known_data,
                       response, outcome >>

\* The running refresh and the entities' latest reads.
step_vars == << task, seen >>

\* pyproject.toml: missing, without a version under [project], or with one,
\* written between double or between single quotes.
Pyproject(state, version) == [ state |-> state, version |-> version ]

\* manifest.json: missing, not JSON, or an object, and its "version".
Manifest(state, version) == [ state |-> state, version |-> version ]

\* What a call of bump_version_part did: its arguments, the exception raised
\* ("none") and the string returned.
Call(version_str, part_to_bump, raised, value) ==
    [ version_str |-> version_str, part_to_bump |-> part_to_bump,
      raised |-> raised, value |-> value ]
NoCall == Call(<<>>, "none", "not called", <<>>)

\* The locals of main: args.part, current_version_pyproject, new_version.
Locals(part, current_version_pyproject, new_version) ==
    [ part |-> part, current_version_pyproject |-> current_version_pyproject,
      new_version |-> new_version ]
NoLocals == Locals("none", <<>>, <<>>)

\* The script: the statement main is at, the runs so far, the locals of
\* main, the two files, whether uv lock ran, and the latest call of
\* bump_version_part.
Script(at, runs, locals, pyproject, manifest, lock, call) ==
    [ at |-> at, runs |-> runs, locals |-> locals, pyproject |-> pyproject,
      manifest |-> manifest, lock |-> lock, call |-> call ]
NoScript ==
    Script("none", 0, NoLocals, Pyproject("missing", <<>>),
           Manifest("missing", <<>>), "not run", NoCall)

\* The coroutine of _async_update_data: the statement it is at, the index of
\* the for loop and the local list filtered_data.
Task(at, i, filtered_data) == [ at |-> at, i |-> i, filtered_data |-> filtered_data ]
NoTask == Task("idle", 0, <<>>)

\* The values the count and latest-event states returned, and where the
\* refresh was suspended when they were read.
Seen(at, count, latest) == [ at |-> at, count |-> count, latest |-> latest ]
NotSeen == Seen("never", <<>>, <<>>)

\* The state of the config flow.
flow_vars == << flow, configured >>

\* user_input of async_step_user: None, or the dict of the form.
UserInput(given, text) == [ given |-> given, postcode |-> text ]
NoInput == UserInput(FALSE, <<>>)

\* The answer to the GET of the reachability probe: an exception, or a
\* response with a status.
Probe(raised, status) == [ raised |-> raised, status |-> status ]
NoProbe == Probe("not sent", 0)

\* The errors dict of async_step_user; "none" stands for a key not set.
Errors(field, base) == [ postcode |-> field, base |-> base ]
NoErrors == Errors("none", "none")

\* What a step of the config flow returns: the form with its errors, the
\* created entry with its title and data, or the abort of the flow.
FlowResult(type, errors, input, probe, title, entry_data) ==
    [ type |-> type, errors |-> errors, input |-> input, probe |-> probe,
      title |-> title, data |-> entry_data ]

\* The config flow before its first step.
NoFlow == FlowResult("none", NoErrors, NoInput, NoProbe, <<>>, NoInput)

\* PowerCutDataUpdateCoordinator.__init__
Init ==
    /\ pc = "setup"
    /\ postcode \in {Normalize(p) : p \in ConfigPostcodes}
    /\ data = Doc("None", <<>>)
    /\ last_update_success = TRUE
    /\ last_known_data = <<>>
    /\ response = Response("not fetched", Doc("None", <<>>))
    /\ outcome = Signal(Outcome("not called", "", <<>>, <<>>))
    /\ children = 0
    /\ flow = NoFlow
    /\ configured = {}
    /\ task = NoTask
    /\ seen = NotSeen
    /\ script = NoScript

\* bool(coordinator.data)
DataTruthy(d) == d.t = "list" /\ d.items # <<>>

\* coordinator.async_refresh(): one call of _async_update_data; the list it
\* returns becomes coordinator.data, an exception leaves data as it was and
\* clears last_update_success.
async_refresh(r) ==
    LET o == async_update_data(r, postcode, last_known_data) IN
    /\ response' = r
    /\ outcome' = Signal(o)
    /\ last_known_data' = o.last_known
    /\ IF o.raised = "none"
       THEN /\ data' = Doc("list", o.value)
            /\ last_update_success' = TRUE
       ELSE /\ data' = data
            /\ last_update_success' = FALSE
    /\ UNCHANGED postcode

\* async_setup_entry up to its sleep: the first refresh, then the count
\* sensor is added.
SetupEntry ==
    /\ pc = "setup"
    /\ \E r \in Responses : async_refresh(r)
    /\ pc' = "sleep"
    /\ UNCHANGED children
    /\ UNCHANGED << flow_vars, step_vars, script >>

\* A refresh on the update interval or on request.
Refresh ==
    /\ pc \in {"sleep", "running"}
    /\ \E r \in Responses : async_refresh(r)
    /\ UNCHANGED << pc, children >>
    /\ UNCHANGED << flow_vars, step_vars, script >>

\* Per-index entities added again whenever the set held has changed, not
\* only once after the sleep of async_setup_entry.
AddChildEntities_on_change ==
    /\ pc \in {"sleep", "running"}
    /\ children' = IF DataTruthy(data) THEN Len(data.items) ELSE 0
    /\ pc = "running" => children' # children
    /\ pc' = "running"
    /\ UNCHANGED << postcode, data, last_update_success, last_known_data,
                    response, outcome >>
    /\ UNCHANGED << flow_vars, step_vars, script >>

\* async_setup_entry after its sleep: seven entities for each power cut of
\* coordinator.data, then the latest-event sensor.
AddChildEntities ==
    /\ pc = "sleep"
    /\ children' = IF DataTruthy(data) THEN Len(data.items) ELSE 0
    /\ pc' = "running"
    /\ UNCHANGED << postcode, data, last_update_success, last_known_data,
                    response, outcome >>
    /\ UNCHANGED << flow_vars, step_vars, script >>

----------------------------------------------------------------------------
\* datetime.fromisoformat and datetime.isoformat

\* str.replace("Z", "+00:00")
RECURSIVE ReplaceZ(_)
ReplaceZ(s) ==
    IF s = <<>> THEN <<>>
    ELSE IF Head(s) = "Z"
         THEN <<"+", "0", "0", ":", "0", "0">> \o ReplaceZ(Tail(s))
         ELSE <<Head(s)>> \o ReplaceZ(Tail(s))

IsDigit(c) == c \in {"0", "1", "2", "3", "4", "5", "6", "7", "8", "9"}
DigitVal(c) == Ord(c) - Ord("0")
DigitChar(n) == Alphabet[Ord("0") + n]

\* The characters s[i..i+k-1] exist and are digits.
AllDigits(s, i, k) == i + k - 1 <= Len(s) /\ \A j \in i..(i + k - 1) : IsDigit(s[j])

\* The number written by the k digits from s[i].
RECURSIVE Number(_, _, _)
Number(s, i, k) ==
    IF k = 0 THEN 0 ELSE 10 * Number(s, i, k - 1) + DigitVal(s[i + k - 1])

IsLeap(y) == (y % 4 = 0 /\ y % 100 # 0) \/ y % 400 = 0

DaysInMonth(y, m) ==
    IF m = 2 THEN (IF IsLeap(y) THEN 29 ELSE 28)
    ELSE IF m \in {4, 6, 9, 11} THEN 30 ELSE 31

\* tzinfo of a naive datetime
NoTz == -100000

Invalid ==
    [ ok |-> FALSE, year |-> 0, month |-> 0, day |-> 0,
      hour |-> 0, minute |-> 0, second |-> 0, tz |-> NoTz ]

\* HH:MM or HH:MM:SS, as [ok, hour, minute, second].
ParseClock(c) ==
    IF Len(c) = 5 /\ AllDigits(c, 1, 2) /\ c[3] = ":" /\ AllDigits(c, 4, 2)
    THEN [ok |-> TRUE, hour |-> Number(c, 1, 2), minute |-> Number(c, 4, 2),
          second |-> 0]
    ELSE IF Len(c) = 8 /\ AllDigits(c, 1, 2) /\ c[3] = ":" /\ AllDigits(c, 4, 2)
            /\ c[6] = ":" /\ AllDigits(c, 7, 2)
    THEN [ok |-> TRUE, hour |-> Number(c, 1, 2), minute |-> Number(c, 4, 2),
          second |-> Number(c, 7, 2)]
    ELSE [ok |-> FALSE, hour |-> 0, minute |-> 0, second |-> 0]

\* A UTC offset (+|-)HH:MM in minutes, as [ok, minutes].
ParseOffset(o) ==
    IF Len(o) = 6 /\ o[1] \in {"+", "-"} /\ AllDigits(o, 2, 2) /\ o[4] = ":"
       /\ AllDigits(o, 5, 2) /\ Number(o, 2, 2) < 24 /\ Number(o, 5, 2) < 60
    THEN [ok |-> TRUE,
          minutes |-> (IF o[1] = "-" THEN -1 ELSE 1)
                      * (60 * Number(o, 2, 2) + Number(o, 5, 2))]
    ELSE [ok |-> FALSE, minutes |-> 0]

\* datetime.fromisoformat(s) for the forms YYYY-MM-DD, and YYYY-MM-DD, one
\* separator character, HH:MM or HH:MM:SS, and an optional offset (+|-)HH:MM;
\* ok = FALSE stands for ValueError.
fromisoformat(s) ==
    IF ~(Len(s) >= 10 /\ AllDigits(s, 1, 4) /\ s[5] = "-" /\ AllDigits(s, 6, 2)
         /\ s[8] = "-" /\ AllDigits(s, 9, 2))
    THEN Invalid
    ELSE
    LET y == Number(s, 1, 4)
        m == Number(s, 6, 2)
        d == Number(s, 9, 2)
        rest == SubSeq(s, 12, Len(s))
        signs == {k \in 1..Len(rest) : rest[k] \in {"+", "-"}}
        cut == IF signs = {} THEN Len(rest) + 1
               ELSE CHOOSE k \in signs : \A j \in signs : k <= j
        clock == ParseClock(SubSeq(rest, 1, cut - 1))
        offset == ParseOffset(SubSeq(rest, cut, Len(rest)))
    IN  IF ~(y >= 1 /\ m \in 1..12 /\ d \in 1..DaysInMonth(y, m)) THEN Invalid
        ELSE IF Len(s) = 10
        THEN [ ok |-> TRUE, year |-> y, month |-> m, day |-> d,
               hour |-> 0, minute |-> 0, second |-> 0, tz |-> NoTz ]
        ELSE IF Len(s) = 11 \/ ~clock.ok \/ clock.hour > 23
                \/ clock.minute > 59 \/ clock.second > 59
        THEN Invalid
        ELSE IF signs # {} /\ ~offset.ok THEN Invalid
        ELSE [ ok |-> TRUE, year |-> y, month |-> m, day |-> d,
               hour |-> clock.hour, minute |-> clock.minute,
               second |-> clock.second,
               tz |-> IF signs = {} THEN NoTz ELSE offset.minutes ]

\* n written with k digits
RECURSIVE Pad(_, _)
Pad(n, k) ==
    IF k = 0 THEN <<>> ELSE Pad(n \div 10, k - 1) \o <<DigitChar(n % 10)>>

\* datetime.isoformat()
isoformat(dt) ==
    Pad(dt.year, 4) \o <<"-">> \o Pad(dt.month, 2) \o <<"-">> \o Pad(dt.day, 2)
    \o <<"T">> \o Pad(dt.hour, 2) \o <<":">> \o Pad(dt.minute, 2)
    \o <<":">> \o Pad(dt.second, 2)
    \o (IF dt.tz = NoTz THEN <<>>
        ELSE LET a == IF dt.tz < 0 THEN -dt.tz ELSE dt.tz IN
             <<IF dt.tz < 0 THEN "-" ELSE "+">> \o Pad(a \div 60, 2)
             \o <<":">> \o Pad(a % 60, 2))

\* str(n) for n >= 0
RECURSIVE str(_)
str(n) == IF n < 10 THEN <<DigitChar(n)>> ELSE str(n \div 10) \o <<DigitChar(n % 10)>>

----------------------------------------------------------------------------
\* The sensor entities, as functions of the coordinator c they hold
\* (self.coordinator)

\* power_cut_index of the count and latest-event sensors (None)
NoIndex == -1

\* The indexes the per-index entities were created with.
ChildIndexes == 0..(children - 1)

\* The per-index entities async_setup_entry has added: the index and the
\* sensor class of each.
ChildEntities ==
    { <<i, kind>> : i \in ChildIndexes,
                    kind \in { "reference", "affected_customers", "status",
                               "reason", "start_time", "estimated_restoration",
                               "nature" } }

\* The raw key each per-index sensor reads.
FieldOf ==
    [ reference |-> "Reference",
      affected_customers |-> "TotalConfirmedPowerCut",
      status |-> "CustomerStageSequenceMessage",
      reason |-> "Reason",
      nature |-> "NatureOfOutage",
      start_time |-> "LoggedTime",
      estimated_restoration |-> "EstimatedTimeTillResolution" ]

RawKinds == {"reference", "affected_customers", "status", "reason", "nature"}
TimeKinds == {"start_time", "estimated_restoration"}
Kinds == RawKinds \cup TimeKinds

\* PowerCutBaseSensor.available, for an entity created with this index
BaseAvailable(c, index) ==
    IF index # NoIndex /\ DataTruthy(c.data)
    THEN Len(c.data.items) > index /\ c.last_update_success
    ELSE c.last_update_success

\* The guard every per-index state starts with:
\* not coordinator.data or len(coordinator.data) <= index
IndexGone(c, index) == ~DataTruthy(c.data) \/ Len(c.data.items) <= index

\* RawState as PowerCutBaseSensor.state, which every sensor inherits and
\* which reads "Reference": a sensor that does not override state.
RawState_inherited(c, index, kind) ==
    IF IndexGone(c, index) THEN PyNone
    ELSE Get(c.data.items[index + 1].Reference)

\* state of the reference, affected-customers, status, reason and nature
\* sensors: coordinator.data[index].get(key)
RawState(c, index, kind) ==
    IF IndexGone(c, index) THEN PyNone
    ELSE Get(c.data.items[index + 1][FieldOf[kind]])

\* The try block of the two timestamp sensors; only ValueError and TypeError
\* are caught.
ParseTime(time_str) ==
    IF time_str.t # "str" THEN Raised("AttributeError")
    ELSE LET dt == fromisoformat(ReplaceZ(time_str.s)) IN
         IF dt.ok THEN PyStr(isoformat(dt)) ELSE PyNone

\* state of the start-time and estimated-restoration sensors
TimeState(c, index, kind) ==
    IF IndexGone(c, index) THEN PyNone
    ELSE LET time_str == Get(c.data.items[index + 1][FieldOf[kind]]) IN
         IF ~Truthy(time_str) THEN PyNone ELSE ParseTime(time_str)

\* state of a per-index sensor
ChildState(c, index, kind) ==
    IF kind \in TimeKinds THEN TimeState(c, index, kind)
    ELSE RawState(c, index, kind)

\* CountState(c) without str().
CountState_int(c) ==
    IF ~DataTruthy(c.data) THEN PyStr(<<"0">>) ELSE PyInt(Len(c.data.items))

\* CountState(c) showing "0" whenever the last update failed.
CountState_zero_on_failure(c) ==
    IF ~DataTruthy(c.data) \/ ~c.last_update_success THEN PyStr(<<"0">>)
    ELSE PyStr(str(Len(c.data.items)))

\* PowerCutCountSensor.state
CountState(c) ==
    IF ~DataTruthy(c.data) THEN PyStr(<<"0">>) ELSE PyStr(str(Len(c.data.items)))

\* PowerCutCountSensor.available (inherited, power_cut_index None)
CountAvailable(c) == BaseAvailable(c, NoIndex)

\* KeyGreater with >= for >: the last of equal keys wins.
KeyGreater_or_equal(a, b) ==
    IF a.t = "str" /\ b.t = "str" THEN [exc |-> "none", gt |-> ~StrLess(a.s, b.s)]
    ELSE IF a.t = "int" /\ b.t = "int" THEN [exc |-> "none", gt |-> a.n >= b.n]
    ELSE [exc |-> "TypeError", gt |-> FALSE]

\* a > b on two keys of max(): str with str, int with int, else TypeError.
KeyGreater(a, b) ==
    IF a.t = "str" /\ b.t = "str" THEN [exc |-> "none", gt |-> StrLess(b.s, a.s)]
    ELSE IF a.t = "int" /\ b.t = "int" THEN [exc |-> "none", gt |-> a.n > b.n]
    ELSE [exc |-> "TypeError", gt |-> FALSE]

\* key=lambda x: x.get("LoggedTime", "")
LoggedKey(x) == GetOr(x.LoggedTime, PyStr(<<>>))

\* max(items, key=LoggedKey) from element i on, best being the maximum so
\* far: a later element replaces it only when its key is greater.
RECURSIVE MaxLoop(_, _, _)
MaxLoop(items, i, best) ==
    IF i > Len(items) THEN [exc |-> "none", item |-> best]
    ELSE LET cmp == KeyGreater(LoggedKey(items[i]), LoggedKey(best)) IN
         IF cmp.exc # "none" THEN [exc |-> cmp.exc, item |-> best]
         ELSE MaxLoop(items, i + 1, IF cmp.gt THEN items[i] ELSE best)

\* max(coordinator.last_known_data, key=...)
LatestEvent(c) == MaxLoop(c.last_known_data, 2, c.last_known_data[1])

\* LatestPowerCutEventSensor.state
LatestState(c) ==
    IF c.last_known_data = <<>> THEN PyNone
    ELSE IF LatestEvent(c).exc # "none" THEN Raised(LatestEvent(c).exc)
    ELSE Get(LatestEvent(c).item.Reference)

\* A dict of state attributes; empty is {}.
Attributes(empty, start_time, estimated_restoration, status, reason, nature) ==
    [ empty |-> empty, start_time |-> start_time,
      estimated_restoration |-> estimated_restoration,
      status |-> status, reason |-> reason, nature |-> nature ]

NoAttributes == Attributes(TRUE, Absent, Absent, Absent, Absent, Absent)

\* LatestPowerCutEventSensor.extra_state_attributes
LatestAttributes(c) ==
    IF c.last_known_data = <<>> THEN NoAttributes
    ELSE IF LatestEvent(c).exc # "none"
    THEN Attributes(FALSE, Raised(LatestEvent(c).exc), Raised(LatestEvent(c).exc),
                    Raised(LatestEvent(c).exc), Raised(LatestEvent(c).exc),
                    Raised(LatestEvent(c).exc))
    ELSE LET e == LatestEvent(c).item IN
         Attributes(FALSE, Get(e.LoggedTime),
                    Get(e.EstimatedTimeTillResolution),
                    Get(e.CustomerStageSequenceMessage), Get(e.Reason),
                    Get(e.NatureOfOutage))

\* LatestAvailable(c) without the override: PowerCutBaseSensor.available.
LatestAvailable_inherited(c) == BaseAvailable(c, NoIndex)

\* LatestPowerCutEventSensor.available
LatestAvailable(c) == c.last_known_data # <<>>

\* The coordinator the entities hold.
coordinator ==
    [ data |-> data,
      last_update_success |-> last_update_success,
      last_known_data |-> last_known_data ]

\* The entities async_setup_entry has added so far.
CountAdded == pc \in {"sleep", "running"}
ChildrenAdded == pc = "running"
LatestAdded == pc = "running"

Next == SetupEntry \/ Refresh \/ AddChildEntities

Spec == Init /\ [][Next]_vars

----------------------------------------------------------------------------
\* The config flow (config_flow.py)

MIN_POSTCODE_LENGTH == 5
MAX_POSTCODE_LENGTH == 7
HTTP_OK == 200

\* The postcodes a user types into the form.
NE11 == <<"N", "E", "1", "1">>
NE1_1 == <<"N", "E", "1", " ", "1">>
NE11A == <<"N", "E", "1", "1", "A">>
ne1_1aa == <<"n", "e", "1", " ", "1", "a", "a">>
NE11_1AA == <<"N", "E", "1", "1", " ", "1", "A", "A">>
NE11_1AAB == <<"N", "E", "1", "1", " ", "1", "A", "A", "B">>

UserInputs ==
    {NoInput} \cup
    {UserInput(TRUE, text) :
        text \in {<<>>, NE11, NE1_1, NE11A, NE1_1AA, ne1_1aa, ne2_2bb,
                  NE11_1AA, NE11_1AAB}}

\* The answers of the endpoint to the probe.
Probes ==
    {Probe("none", status) : status \in {HTTP_OK, 404, 503}} \cup
    {Probe(e, 0) : e \in {"ClientError", "TimeoutError", "RuntimeError"}}

\* len(postcode) < MIN_POSTCODE_LENGTH or len(postcode) > MAX_POSTCODE_LENGTH
LengthInvalid(text) ==
    Len(text) < MIN_POSTCODE_LENGTH \/ Len(text) > MAX_POSTCODE_LENGTH

\* A probe that takes every answer without an exception for a success.
ProbeError_status_ignored(probe) ==
    CASE probe.raised = "none" -> "none"
      [] probe.raised \in {"ClientError", "TimeoutError"} -> "cannot_connect"
      [] OTHER -> "unknown"

\* errors["base"] after the try block of the probe.
ProbeError(probe) ==
    CASE probe.raised = "none" ->
            IF probe.status # HTTP_OK THEN "cannot_connect" ELSE "none"
      [] probe.raised \in {"ClientError", "TimeoutError"} -> "cannot_connect"
      [] OTHER -> "unknown"

\* f"Northern Powergrid {user_input[CONF_POSTCODE]}"
Title(text) == <<"Northern Powergrid ">> \o text

\* self.async_show_form(step_id="user", ..., errors=errors)
async_show_form(errors, user_input, probe) ==
    FlowResult("form", errors, user_input, probe, <<>>, NoInput)

\* NorthernPowergridFlowHandler.async_step_user
async_step_user(user_input, probe) ==
    LET text == Normalize(user_input.postcode) IN
    IF ~user_input.given
    THEN /\ flow' = async_show_form(NoErrors, user_input, NoProbe)
         /\ UNCHANGED configured
    ELSE IF LengthInvalid(text)
    THEN /\ flow' = async_show_form(Errors("invalid_postcode", "none"),
                                    user_input, NoProbe)
         /\ UNCHANGED configured
    ELSE IF ProbeError(probe) # "none"
    THEN /\ flow' = async_show_form(Errors("none", ProbeError(probe)),
                                    user_input, probe)
         /\ UNCHANGED configured
    ELSE IF text \in configured
    THEN /\ flow' = FlowResult("abort", NoErrors, user_input, probe,
                               <<>>, NoInput)
         /\ UNCHANGED configured
    ELSE /\ flow' = FlowResult("create_entry", NoErrors, user_input, probe,
                               Title(user_input.postcode), user_input)
         /\ configured' = configured \cup {text}

\* A step of the flow: the form is opened, or submitted with some input.
StepUser ==
    /\ \E user_input \in UserInputs : \E probe \in Probes :
           async_step_user(user_input, probe)
    /\ UNCHANGED << pc, postcode, data, last_update_success, last_known_data,
                    response, outcome, children >>
    /\ UNCHANGED << step_vars, script >>

FlowNext == StepUser

FlowSpec == Init /\ [][FlowNext]_vars

----------------------------------------------------------------------------
\* One refresh statement by statement, and the entities read meanwhile

\* What the GET of a refresh followed step by step may end with.
StepResponses ==
    {Response(e, Doc("None", <<>>)) :
        e \in {"TimeoutError", "ClientError", "JSONDecodeError"}}
    \cup {Response("none", Doc("list", items)) :
            items \in SeqsUpTo({Cut1, Cut2, Cut3}, MaxRecords)}
    \cup {Response("none", Doc("None", <<>>)),
          Response("none", Doc("list", <<Cut1, NonObject("int")>>))}

\* The statements at which the coroutine is suspended, the statement after
\* self._last_known_data = filtered_data counted among them.
Suspended_after_publish == {"idle", "get", "text", "return"}

\* The statements at which the coroutine is not running, so that the event
\* loop can run an entity's property: no refresh, or one awaiting
\* session.get or response.text.
Suspended == {"idle", "get", "text"}

\* One iteration of the for loop with filtered_data bound to the list
\* self._last_known_data holds, so that every append shows in it.
LoopIteration_in_place(power_cut, P, filtered, last_known) ==
    LET one == FilterLoop(<<power_cut>>, 1, P, filtered) IN
    [ exc |-> one.exc, filtered |-> one.filtered, last_known |-> one.filtered ]

\* One iteration of the for loop: the exception it raises ("none"), the
\* local filtered_data and self._last_known_data after it.
LoopIteration(power_cut, P, filtered, last_known) ==
    LET one == FilterLoop(<<power_cut>>, 1, P, filtered) IN
    [ exc |-> one.exc, filtered |-> one.filtered, last_known |-> last_known ]

\* The except clauses, then DataUpdateCoordinator on UpdateFailed: data is
\* kept and last_update_success cleared.
RaiseUpdateFailed(exc) ==
    /\ outcome' = ExceptClauses(exc)
    /\ last_update_success' = FALSE
    /\ task' = NoTask
    /\ UNCHANGED data

\* A refresh begins: _async_update_data runs to await session.get.
StartRefresh ==
    /\ task.at = "idle"
    /\ task' = Task("get", 0, <<>>)
    /\ UNCHANGED << pc, children, coordinator_vars, flow_vars, seen, script >>

\* session.get ends: with a response, whose text is awaited next, with a
\* client error, or with the timeout of async_timeout.
GetReturns ==
    /\ task.at = "get"
    /\ \/ /\ task' = Task("text", 0, <<>>)
          /\ UNCHANGED << data, last_update_success, outcome >>
       \/ \E e \in {"TimeoutError", "ClientError"} : RaiseUpdateFailed(e)
    /\ UNCHANGED << pc, children, postcode, last_known_data, response,
                    flow_vars, seen,
                    script >>

\* response.text ends: with the body, which json.loads decodes and the for
\* statement starts to iterate, or with an error or the timeout.
TextReturns ==
    /\ task.at = "text"
    /\ \E r \in StepResponses :
          /\ response' = r
          /\ IF TryBlock(Response(r.error, Doc(r.json.t, <<>>)), postcode).exc
                  # "none"
             THEN RaiseUpdateFailed(
                      TryBlock(Response(r.error, Doc(r.json.t, <<>>)),
                               postcode).exc)
             ELSE /\ task' = Task("loop", 1, <<>>)
                  /\ UNCHANGED << data, last_update_success, outcome >>
    /\ UNCHANGED << pc, children, postcode, last_known_data, flow_vars, seen,
                    script >>

\* One iteration of the for loop.
LoopStep ==
    /\ task.at = "loop"
    /\ task.i <= Len(response.json.items)
    /\ LET it == LoopIteration(response.json.items[task.i], postcode,
                               task.filtered_data, last_known_data)
       IN  /\ last_known_data' = it.last_known
           /\ IF it.exc # "none"
              THEN RaiseUpdateFailed(it.exc)
              ELSE /\ task' = Task("loop", task.i + 1, it.filtered)
                   /\ UNCHANGED << data, last_update_success, outcome >>
    /\ UNCHANGED << pc, children, postcode, response, flow_vars, seen,
                    script >>

\* self._last_known_data = filtered_data, after the loop.
Publish ==
    /\ task.at = "loop"
    /\ task.i > Len(response.json.items)
    /\ last_known_data' = task.filtered_data
    /\ task' = Task("return", task.i, task.filtered_data)
    /\ UNCHANGED << pc, children, postcode, data, last_update_success,
                    response, outcome, flow_vars, seen,
                    script >>

\* return filtered_data, which DataUpdateCoordinator stores in data.
Return ==
    /\ task.at = "return"
    /\ data' = Doc("list", task.filtered_data)
    /\ last_update_success' = TRUE
    /\ outcome' = Signal(Outcome("none", "", <<>>, <<>>))
    /\ task' = NoTask
    /\ UNCHANGED << pc, children, postcode, last_known_data, response,
                    flow_vars, seen,
                    script >>

\* The event loop runs the state properties of the count and latest-event
\* entities while no refresh is running or the refresh is suspended.
Read ==
    /\ task.at \in Suspended
    /\ seen' = Seen(task.at, CountState(coordinator), LatestState(coordinator))
    /\ UNCHANGED << pc, children, coordinator_vars, flow_vars, task, script >>

StepNext ==
    \/ StartRefresh
    \/ GetReturns
    \/ TextReturns
    \/ LoopStep
    \/ Publish
    \/ Return
    \/ Read

StepSpec == Init /\ [][StepNext]_vars

----------------------------------------------------------------------------
\* The version script (scripts/bump_version.py)

\* version_str.split(".")
RECURSIVE split(_)
split(s) ==
    IF \A j \in 1..Len(s) : s[j] # "."
    THEN << s >>
    ELSE LET k == CHOOSE j \in 1..Len(s) :
                      s[j] = "." /\ \A m \in 1..(j - 1) : s[m] # "."
         IN  << SubSeq(s, 1, k - 1) >> \o split(SubSeq(s, k + 1, Len(s)))

\* str.strip(), which int() applies to its argument.
RECURSIVE strip(_)
strip(s) ==
    IF s = <<>> THEN s
    ELSE IF Head(s) = " " THEN strip(Tail(s))
    ELSE IF s[Len(s)] = " " THEN strip(SubSeq(s, 1, Len(s) - 1))
    ELSE s

\* int(token): the number, or ValueError (ok false).  An optional sign, then
\* decimal digits, white space around them allowed.
int(token) ==
    LET t == strip(token)
        signed == t # <<>> /\ Head(t) \in {"+", "-"}
        digits == IF signed THEN Tail(t) ELSE t
    IN  IF digits # <<>> /\ AllDigits(digits, 1, Len(digits))
        THEN [ ok |-> TRUE,
               n |-> IF signed /\ Head(t) = "-"
                     THEN 0 - Number(digits, 1, Len(digits))
                     ELSE Number(digits, 1, Len(digits)) ]
        ELSE [ ok |-> FALSE, n |-> 0 ]

\* f"{n}" of an int
format(n) == IF n < 0 THEN <<"-">> \o str(0 - n) ELSE str(n)

\* f"{major}.{minor}.{patch}"
VersionString(major, minor, patch) ==
    format(major) \o <<".">> \o format(minor) \o <<".">> \o format(patch)

\* bump_version_part whose minor branch leaves patch as it is.
bump_version_part_minor_keeps_patch(version_str, part_to_bump) ==
    LET parts == split(version_str) IN
    IF Len(parts) # 3 \/ \E j \in 1..Len(parts) : ~int(parts[j]).ok
    THEN Call(version_str, part_to_bump, "ValueError", <<>>)
    ELSE LET major == int(parts[1]).n
             minor == int(parts[2]).n
             patch == int(parts[3]).n
         IN  CASE part_to_bump = "major" ->
                    Call(version_str, part_to_bump, "none",
                         VersionString(major + 1, 0, 0))
               [] part_to_bump = "minor" ->
                    Call(version_str, part_to_bump, "none",
                         VersionString(major, minor + 1, patch))
               [] part_to_bump = "patch" ->
                    Call(version_str, part_to_bump, "none",
                         VersionString(major, minor, patch + 1))
               [] OTHER -> Call(version_str, part_to_bump, "ValueError", <<>>)

\* bump_version_part
bump_version_part(version_str, part_to_bump) ==
    LET parts == split(version_str) IN
    IF Len(parts) # 3 \/ \E j \in 1..Len(parts) : ~int(parts[j]).ok
    THEN Call(version_str, part_to_bump, "ValueError", <<>>)
    ELSE LET major == int(parts[1]).n
             minor == int(parts[2]).n
             patch == int(parts[3]).n
         IN  CASE part_to_bump = "major" ->
                    Call(version_str, part_to_bump, "none",
                         VersionString(major + 1, 0, 0))
               [] part_to_bump = "minor" ->
                    Call(version_str, part_to_bump, "none",
                         VersionString(major, minor + 1, 0))
               [] part_to_bump = "patch" ->
                    Call(version_str, part_to_bump, "none",
                         VersionString(major, minor, patch + 1))
               [] OTHER -> Call(version_str, part_to_bump, "ValueError", <<>>)

\* The version strings bump_version_part is called with.
VersionStrings ==
    { <<"1", ".", "2", ".", "3">>,
      <<"9", ".", "9", ".", "9">>,
      <<"0", ".", "0", ".", "0">>,
      <<"0", "1", ".", "2", ".", "3">>,
      <<"1", "0", ".", "1", "9", ".", "9", "9">>,
      <<" ", "1", ".", "2", ".", "3", " ">>,
      <<"+", "1", ".", "2", ".", "3">>,
      <<"-", "1", ".", "2", ".", "3">>,
      <<"1", ".", "2", ".", "-", "1">>,
      <<>>,
      <<"1", ".", "2">>,
      <<"1", ".", "2", ".", "3", ".", "4">>,
      <<"1", ".", "2", ".", "x">>,
      <<"1", ".", ".", "3">>,
      <<"1", ".", "-", ".", "3">>,
      <<"1", " ", "2", ".", "3", ".", "4">>,
      <<"1", ".", "2", ".", "3", "r", "c", "1">> }

\* The choices of the part argument of main.
Choices == {"major", "minor", "patch"}

\* The part names bump_version_part is called with.
PartNames == Choices \cup {"build", "Major", ""}

\* pyproject.toml as main may find it.
Pyprojects ==
    {Pyproject("missing", <<>>), Pyproject("no version", <<>>)} \cup
    {Pyproject(quotes, v) :
        quotes \in {"double quotes", "single quotes"},
        v \in { <<"1", ".", "2", ".", "3">>,
                <<"9", ".", "9", ".", "9">>,
                <<"1", ".", "2", ".", "3", "r", "c", "1">> }}

\* manifest.json as main may find it.
Manifests ==
    { Manifest("missing", <<>>),
      Manifest("invalid", <<>>),
      Manifest("object", <<"1", ".", "2", ".", "3">>),
      Manifest("object", <<"0", ".", "0", ".", "1">>) }

\* bump_version_part called by a program that imports the script.
CallBump ==
    /\ script.at \in {"none", "called"}
    /\ \E version_str \in VersionStrings : \E part_to_bump \in PartNames :
          script' = [script EXCEPT
                        !.at = "called",
                        !.call = bump_version_part(version_str, part_to_bump)]
    /\ UNCHANGED << pc, children, coordinator_vars, flow_vars, step_vars >>

\* main up to the bump: the part is parsed, the current version read from
\* pyproject.toml and bumped.  The first run finds the files as they are.
MainBump ==
    /\ script.at \in {"none", "called", "exit", "done"}
    /\ script.runs < MaxRuns
    /\ \E part \in Choices : \E found \in Pyprojects : \E json \in Manifests :
          LET pyproject == IF script.runs = 0 THEN found ELSE script.pyproject
              manifest == IF script.runs = 0 THEN json ELSE script.manifest
              current == pyproject.version
              bumped == bump_version_part(current, part)
              started == Script("bump", script.runs + 1,
                                Locals(part, <<>>, <<>>), pyproject, manifest,
                                "not run", NoCall)
          IN  IF pyproject.state \in {"missing", "no version"}
              THEN script' = [started EXCEPT !.at = "exit"]
              ELSE IF bumped.raised # "none"
              THEN script' = [started EXCEPT
                                 !.at = "exit",
                                 !.locals = Locals(part, current, <<>>),
                                 !.call = bumped]
              ELSE script' = [started EXCEPT
                                 !.at = "update_pyproject_toml",
                                 !.locals = Locals(part, current, bumped.value),
                                 !.call = bumped]
    /\ UNCHANGED << pc, children, coordinator_vars, flow_vars, step_vars >>

\* update_pyproject_toml(new_version): the version line under [project] is
\* rewritten if it matches version = "..."; otherwise the script exits.
UpdatePyproject ==
    /\ script.at = "update_pyproject_toml"
    /\ script' =
          IF script.pyproject.state = "double quotes"
          THEN [script EXCEPT
                   !.at = "update_manifest_json",
                   !.pyproject = Pyproject("double quotes",
                                           script.locals.new_version)]
          ELSE [script EXCEPT !.at = "exit"]
    /\ UNCHANGED << pc, children, coordinator_vars, flow_vars, step_vars >>

\* update_manifest_json(new_version)
UpdateManifest ==
    /\ script.at = "update_manifest_json"
    /\ script' =
          IF script.manifest.state = "object"
          THEN [script EXCEPT
                   !.at = "uv lock",
                   !.manifest = Manifest("object", script.locals.new_version)]
          ELSE [script EXCEPT !.at = "exit"]
    /\ UNCHANGED << pc, children, coordinator_vars, flow_vars, step_vars >>

\* subprocess.run(["uv", "lock"], check=True): it succeeds, exits with an
\* error, or uv is not found.
UvLock ==
    /\ script.at = "uv lock"
    /\ \E result \in {"ok", "CalledProcessError", "FileNotFoundError"} :
          script' = [script EXCEPT
                        !.at = IF result = "ok" THEN "done" ELSE "exit",
                        !.lock = result]
    /\ UNCHANGED << pc, children, coordinator_vars, flow_vars, step_vars >>

ScriptNext ==
    \/ CallBump
    \/ MainBump
    \/ UpdatePyproject
    \/ UpdateManifest
    \/ UvLock

ScriptSpec == Init /\ [][ScriptNext]_vars

----------------------------------------------------------------------------
\* What the claims speak of

\* A string uppercased and with its spaces removed.
NormalForm(s) == SelectSeq(Upper(s), LAMBDA c : c # " ")

\* p occurs in s: s is some prefix, then p, then some suffix.
IsSubstring(p, s) ==
    \E a \in 0..Len(s) : \E b \in 0..Len(s) :
        /\ a + Len(p) + b = Len(s)
        /\ \A j \in 1..Len(p) : s[a + j] = p[j]

\* The record has a Postcode whose normalized form contains P.
Matches(rec, P) ==
    /\ rec.t = "dict"
    /\ rec.Postcode.t = "str"
    /\ IsSubstring(P, NormalForm(rec.Postcode.s))

\* The records of a payload array that match P, in their order.
KeptRecords(items, P) == SelectSeq(items, LAMBDA rec : Matches(rec, P))

\* The latest refresh returned.
Succeeded == outcome.raised = "none"

\* The latest refresh raised.
Failed == outcome.raised \notin {"none", "not called"}

\* The current filtered set: coordinator.data, nothing while it is None.
CurrentSet == IF data.t = "list" THEN data.items ELSE <<>>

\* This step is a refresh (its response is the one of the next state).
RefreshStep == async_refresh(response')

\* The payload contains something the fetch cannot process: an error while
\* fetching or decoding, a document that cannot be iterated, an element that
\* is no object, or an object whose Postcode is a non-empty non-string.
IsFailure(r) ==
    \/ r.error # "none"
    \/ r.json.t \in {"None", "int"}
    \/ \E j \in 1..Len(r.json.items) :
          \/ r.json.items[j].t # "dict"
          \/ r.json.items[j].Postcode.t = "int" /\ r.json.items[j].Postcode.n # 0

----------------------------------------------------------------------------
\* C1: after a successful refresh of a payload array, the list returned holds
\* exactly the records whose normalized Postcode contains the normalized
\* postcode P as a substring, in their original relative order.
C1_FilterKeepsExactlyMatching ==
    (Succeeded /\ response.json.t = "list")
        => /\ data.t = "list"
           /\ data.items = KeptRecords(response.json.items, postcode)

\* C1 witness: P = "NE11AA", a payload with "NE2 2BB" and "NE1 1AA": the
\* first is dropped and the second kept.
C1_Witness ==
    /\ Succeeded
    /\ postcode = NE11AA
    /\ response.json = Doc("list", <<Cut2, Cut1>>)
    /\ data.items = <<Cut1>>

\* C2: the last-known set is empty before any refresh has succeeded; a
\* refresh that fails leaves it unchanged and raises UpdateFailed; a refresh
\* that succeeds replaces it by the filtered result of that refresh.
C2_LastKnownIsLastSuccess ==
    /\ last_known_data = <<>>
    /\ [][ RefreshStep =>
             /\ IsFailure(response')
                  => /\ last_known_data' = last_known_data
                     /\ outcome'.raised = "UpdateFailed"
             /\ ~IsFailure(response')
                  => /\ outcome'.raised = "none"
                     /\ last_known_data'
                          = KeptRecords(response'.json.items, postcode) ]_vars

\* C2 witness: a JSON decode error after a refresh that cached a record.
C2_Witness ==
    /\ response.error = "JSONDecodeError"
    /\ outcome.raised = "UpdateFailed"
    /\ last_known_data # <<>>

\* C3: whatever fails inside a refresh (client error, timeout, malformed
\* JSON, a payload that is not an array of objects) leaves the fetch as
\* UpdateFailed with a message and nothing else; no list is returned and the
\* cached list is not touched, also when the failure comes after some
\* records were already filtered.
C3_EveryFailureIsUpdateFailed ==
    /\ outcome.raised \in {"not called", "none", "UpdateFailed"}
    /\ (outcome.raised # "not called" /\ IsFailure(response))
          => (outcome.raised = "UpdateFailed" /\ outcome.msg # "")
    /\ \A r \in Responses :
          LET o == async_update_data(r, postcode, last_known_data) IN
          IsFailure(r) => /\ o.raised = "UpdateFailed"
                          /\ o.value = <<>>
                          /\ o.last_known = last_known_data

\* C3 witness: valid JSON that is not an array of objects, failing after one
\* record was filtered.
C3_Witness ==
    /\ response = Response("none", Doc("list", <<Cut1, NonObject("int")>>))
    /\ outcome.raised = "UpdateFailed"
    /\ postcode = NE11AA

\* C4 (as claimed): a per-index view whose index is not below the length of
\* the current set, the empty set included, reports unavailable.
C4_PerIndexUnavailableWhenIndexGone ==
    ChildrenAdded =>
        \A i \in ChildIndexes : Len(CurrentSet) <= i => ~BaseAvailable(coordinator, i)

C6_FailedRefreshKeepsStates ==
    /\ [][ (RefreshStep /\ IsFailure(response')) =>
             /\ CountState(coordinator') = CountState(coordinator)
             /\ LatestState(coordinator') = LatestState(coordinator)
             /\ LatestAttributes(coordinator') = LatestAttributes(coordinator)
             /\ \A i \in ChildIndexes : \A k \in Kinds :
                   ChildState(coordinator', i, k) = ChildState(coordinator, i, k) ]_vars
    /\ [](  (CountAdded /\ data.t = "None")
              => /\ ~CountAvailable(coordinator)
                 /\ ~LatestAvailable(coordinator)
                 /\ children = 0 )

\* C6 witness: a failed refresh while per-index entities show a record.
C6_Witness ==
    /\ ChildrenAdded
    /\ children >= 1
    /\ Failed
    /\ Len(CurrentSet) >= 1
    /\ ChildState(coordinator, 0, "reference") # PyNone

\* C7: the state of the count view is the decimal string of the number of
\* records in the current set, "0" when the set is empty or absent.
C7_CountIsLengthString ==
    CountAdded =>
        LET c == CountState(coordinator) IN
        /\ c.t = "str"
        /\ Len(c.s) >= 1
        /\ AllDigits(c.s, 1, Len(c.s))
        /\ Len(c.s) > 1 => c.s[1] # "0"
        /\ Number(c.s, 1, Len(c.s)) = Len(CurrentSet)
        /\ (data.t = "None" \/ data.items = <<>>) => c.s = <<"0">>

\* C7 witness: a set of two records.
C7_Witness == CountAdded /\ Len(CurrentSet) = 2 /\ CountState(coordinator) = PyStr(<<"2">>)

\* The raw field a per-index view shows: None when the key is missing.
RawField(i, k) ==
    LET v == CurrentSet[i + 1][FieldOf[k]] IN
    IF v.t = "absent" THEN PyNone ELSE v

\* C8 (as claimed): every per-index view is None when its index is not in the
\* current set and otherwise the raw field of the record at its index.  (The
\* views that raise are left aside: they are C10's.)
C8_PerIndexStateIsRawField ==
    ChildrenAdded =>
        \A i \in ChildIndexes : \A k \in Kinds :
            ChildState(coordinator, i, k).t # "raise" =>
                ChildState(coordinator, i, k)
                    = IF Len(CurrentSet) <= i THEN PyNone ELSE RawField(i, k)

\* C8 (amended): every per-index view is None when the current set is
\* absent, empty or not longer than its index, whatever the index showed
\* before; otherwise the reference, affected-customers, status, reason and
\* nature views are the raw field of the record now at the index.
C8_PerIndexNoneOrRawField ==
    ChildrenAdded =>
        \A i \in ChildIndexes :
            /\ Len(CurrentSet) <= i
                 => \A k \in Kinds : ChildState(coordinator, i, k) = PyNone
            /\ Len(CurrentSet) > i
                 => \A k \in RawKinds : ChildState(coordinator, i, k) = RawField(i, k)

\* C8 witness: two power cuts had entities, one record is left and it is
\* another outage than the one index 0 showed at setup.
C8_Witness ==
    /\ ChildrenAdded
    /\ children = 2
    /\ CurrentSet = <<Cut3>>
    /\ ChildState(coordinator, 1, "status") = PyNone
    /\ ChildState(coordinator, 0, "status") = PyStr(<<"e">>)

\* The LoggedTime a record is ranked by: the empty string when missing.
LoggedOf(rec) == IF rec.LoggedTime.t = "absent" THEN <<>> ELSE rec.LoggedTime.s

\* a sorts before b as a string: they agree up to some position, where a
\* ends and b goes on, or a has the smaller character.
SortsBefore(a, b) ==
    \E k \in 1..Len(b) :
        /\ \A j \in 1..(k - 1) : j <= Len(a) /\ a[j] = b[j]
        /\ k - 1 <= Len(a)
        /\ k > Len(a) \/ Ord(a[k]) < Ord(b[k])

\* C9: when the last successful fetch is empty the latest-event view is None
\* with no attributes; otherwise, its LoggedTime values being strings or
\* missing, the view is the Reference of the first record whose LoggedTime
\* no other record's exceeds.
C9_LatestIsFirstMaxLoggedTime ==
    LatestAdded =>
        /\ CurrentSet = <<>>
             => (LatestState(coordinator) = PyNone /\ LatestAttributes(coordinator) = NoAttributes)
        /\ ( /\ CurrentSet # <<>>
             /\ \A j \in 1..Len(CurrentSet) :
                   CurrentSet[j].LoggedTime.t \in {"str", "absent"} )
             => \E j \in 1..Len(CurrentSet) :
                   /\ \A m \in 1..Len(CurrentSet) :
                         ~SortsBefore(LoggedOf(CurrentSet[j]),
                                      LoggedOf(CurrentSet[m]))
                   /\ \A m \in 1..(j - 1) :
                         SortsBefore(LoggedOf(CurrentSet[m]),
                                     LoggedOf(CurrentSet[j]))
                   /\ LatestState(coordinator) = Get(CurrentSet[j].Reference)
                   /\ LatestAttributes(coordinator).start_time = Get(CurrentSet[j].LoggedTime)

\* C9 witness: two records logged at the same time; the first is shown.
C9_Witness ==
    /\ LatestAdded
    /\ last_known_data = <<Cut1, Cut6>>
    /\ LatestState(coordinator) = PyStr(<<"A">>)

\* C10 (as claimed): a timestamp view never raises; it is None when the field
\* is missing or cannot be parsed and otherwise the ISO form of the parsed
\* timestamp, a trailing Z read as +00:00.
C10_TimestampViewsNeverRaise ==
    ChildrenAdded =>
        \A i \in ChildIndexes : \A k \in TimeKinds :
            Len(CurrentSet) > i =>
                LET raw == CurrentSet[i + 1][FieldOf[k]]
                    view == ChildState(coordinator, i, k)
                IN  /\ view.t # "raise"
                    /\ IF raw.t = "str" /\ fromisoformat(ReplaceZ(raw.s)).ok
                       THEN view = PyStr(isoformat(fromisoformat(ReplaceZ(raw.s))))
                       ELSE view = PyNone

----------------------------------------------------------------------------
\* C11: async_step_user creates an entry only if the postcode, uppercased
\* and without its spaces, has 5 to 7 characters and the probe returned
\* status 200 without raising; a length outside 5..7 gives the field error
\* invalid_postcode and no probe is made; a status other than 200, a client
\* error or a timeout gives the general error cannot_connect; any other
\* exception gives unknown; in every error case the form is shown again
\* with that error and no entry is created.
C11_EntryOnlyAfterValidation ==
    LET P == NormalForm(flow.input.postcode)
        lengthOk == Len(P) >= 5 /\ Len(P) <= 7
        Shown(field, base) ==
            /\ flow.type = "form"
            /\ flow.errors = [postcode |-> field, base |-> base]
    IN  /\ flow.type = "create_entry" =>
            /\ lengthOk
            /\ flow.probe = [raised |-> "none", status |-> 200]
            /\ P \in configured
        /\ flow.input.given /\ ~lengthOk =>
            /\ Shown("invalid_postcode", "none")
            /\ flow.probe.raised = "not sent"
        /\ /\ flow.input.given /\ lengthOk
           /\ \/ flow.probe.raised = "none" /\ flow.probe.status # 200
              \/ flow.probe.raised \in {"ClientError", "TimeoutError"}
           => Shown("none", "cannot_connect")
        /\ /\ flow.input.given /\ lengthOk
           /\ flow.probe.raised \notin {"none", "not sent", "ClientError",
                                        "TimeoutError"}
           => Shown("none", "unknown")
        /\ flow.errors # [postcode |-> "none", base |-> "none"] =>
            flow.type = "form"
        /\ configured \subseteq
              {NormalForm(u.postcode) : u \in {v \in UserInputs : v.given}}
        /\ \A id \in configured : Len(id) >= 5 /\ Len(id) <= 7

\* An entry was created for a postcode typed in lower case with a space, and
\* afterwards a too long postcode was refused without a probe.
C11_Witness ==
    /\ NE11AA \in configured
    /\ Normalize(NE11_1AA) \in configured
    /\ flow.type = "form"
    /\ flow.errors.postcode = "invalid_postcode"
    /\ flow.input.postcode = NE11_1AAB

----------------------------------------------------------------------------
\* C12: filtering is idempotent: the filter loop run with the same postcode P
\* on the list a successful refresh returned raises nothing and returns that
\* same list, in the same order.
C12_FilterIdempotent ==
    (Succeeded /\ data.t = "list")
        => FilterLoop(data.items, 1, postcode, <<>>)
              = [exc |-> "none", filtered |-> data.items]

\* C12 witness: P = "NE11AA" and a payload whose first record has an empty
\* Postcode and whose second has "ne1 1aab": the filter returned the second
\* alone, and filtering that list returns it again.
C12_Witness ==
    /\ Succeeded
    /\ postcode = NE11AA
    /\ response.json = Doc("list", <<Cut9, Cut3>>)
    /\ data.items = <<Cut3>>
    /\ FilterLoop(data.items, 1, postcode, <<>>).filtered = <<Cut3>>

----------------------------------------------------------------------------
\* C13: whatever a refresh is doing, the sets the projections read are whole:
\* self._last_known_data changes only in the step after the loop has
\* finished, to the complete filtered set of the body being processed, and
\* coordinator.data changes only to that same complete set; while the
\* refresh awaits the network, builds its list or fails, both keep the
\* complete set of the previous successful refresh, and a projection reads
\* only then.
C13_SetPublishedBySingleSwap ==
    [][ /\ last_known_data' # last_known_data =>
            /\ task.at = "loop"
            /\ task.i > Len(response.json.items)
            /\ last_known_data' = KeptRecords(response.json.items, postcode)
        /\ data' # data =>
            /\ data' = [t |-> "list",
                        items |-> KeptRecords(response.json.items, postcode)]
            /\ last_known_data = data'.items
        /\ seen' # seen =>
            /\ task.at \in {"idle", "get", "text"}
            /\ seen'.count.s = str(Len(CurrentSet))
            /\ last_known_data = <<>> => seen'.latest = PyNone
      ]_vars

\* C13 witness: the previous refresh published two records and the count
\* view read "2" while the next refresh awaited the body; that refresh has
\* now appended the first of the body's two matching records to its list,
\* and the published sets are still the previous ones.
C13_Witness ==
    /\ task.at = "loop"
    /\ task.i = 2
    /\ Len(response.json.items) = 2
    /\ Len(task.filtered_data) = 1
    /\ Matches(response.json.items[2], postcode)
    /\ Len(last_known_data) = 2
    /\ last_known_data[1] # task.filtered_data[1]
    /\ data.items = last_known_data
    /\ seen = [at |-> "text", count |-> PyStr(<<"2">>), latest |-> PyStr(<<"E">>)]

----------------------------------------------------------------------------
\* C14: whenever a projection can run (no refresh is running, or the running
\* one is suspended awaiting the network), coordinator.data is either None,
\* and then no refresh has succeeded and the last-known set is empty, or it
\* is the same filtered set as last_known_data.
C14_DataIsLastKnownData ==
    task.at \in Suspended =>
        \/ data.t = "None" /\ last_known_data = <<>>
        \/ data.t = "list" /\ data.items = last_known_data

\* C14 witness: a refresh that failed in its loop, after a successful one of
\* two records, and then a further refresh now awaiting session.get: the
\* count view reads the two records of coordinator.data and the latest-event
\* view the same two of last_known_data.
C14_Witness ==
    /\ task.at = "get"
    /\ ~last_update_success
    /\ outcome.msg = "Unexpected error"
    /\ data.t = "list"
    /\ Len(data.items) = 2
    /\ last_known_data = data.items
    /\ seen = [at |-> "get", count |-> PyStr(<<"2">>), latest |-> PyStr(<<"E">>)]

----------------------------------------------------------------------------
\* C15: the per-index entities are fixed at setup: none exist before
\* async_setup_entry has slept; it then adds, once, seven entities for each
\* index 0..n-1 of the set the coordinator holds at that moment (none when
\* it is empty or absent); no refresh adds or removes any; so when a later
\* refresh returns more than n records the count view reports the larger
\* number and the records at index n and above have no per-index entity.
C15_PerIndexEntitiesFixedAtSetup ==
    /\ children = 0
    /\ [][ /\ children' # children => pc = "sleep" /\ pc' = "running"
           /\ (pc = "sleep" /\ pc' = "running") => children' = Len(CurrentSet)
           /\ pc = "running" => children' = children
           /\ response' # response => children' = children
         ]_vars
    /\ [](/\ Cardinality(ChildEntities) = 7 * children
          /\ \A i \in 0..(children - 1) :
                Cardinality({e \in ChildEntities : e[1] = i}) = 7
          /\ \A e \in ChildEntities : e[1] \in 0..(children - 1))
    /\ [](ChildrenAdded /\ Len(CurrentSet) > children =>
            /\ CountState(coordinator).s = str(Len(CurrentSet))
            /\ \A i \in children..(Len(CurrentSet) - 1) :
                  \A e \in ChildEntities : e[1] # i)

\* C15 witness: setup found one record and added its seven entities; a later
\* refresh returned two, the count view reports "2" and index 1 has no
\* per-index entity.
C15_Witness ==
    /\ pc = "running"
    /\ children = 1
    /\ Cardinality(ChildEntities) = 7
    /\ Len(CurrentSet) = 2
    /\ CountState(coordinator) = PyStr(<<"2">>)
    /\ \A e \in ChildEntities : e[1] = 0

----------------------------------------------------------------------------
\* What C16 speaks of: version strings of three integers

\* The positions of the dots of a string, in order.
DotsOf(v) == SelectSeq([j \in 1..Len(v) |-> j], LAMBDA j : v[j] = ".")

\* The three fields of a string with two dots.
FieldsOf(v) ==
    LET d == DotsOf(v) IN
    << SubSeq(v, 1, d[1] - 1), SubSeq(v, d[1] + 1, d[2] - 1),
       SubSeq(v, d[2] + 1, Len(v)) >>

\* The value of a decimal digit.
DigitOf(ch) ==
    CHOOSE n \in 0..9 :
        << "0", "1", "2", "3", "4", "5", "6", "7", "8", "9" >>[n + 1] = ch

RECURSIVE Pow10(_)
Pow10(k) == IF k = 0 THEN 1 ELSE 10 * Pow10(k - 1)

\* The number a sequence of decimal digits denotes, digit j weighing
\* 10^(length - j).
RECURSIVE Weighted(_, _)
Weighted(ds, j) ==
    IF j > Len(ds) THEN 0
    ELSE DigitOf(ds[j]) * Pow10(Len(ds) - j) + Weighted(ds, j + 1)

\* A field with its blanks removed, blanks standing only at its ends.
Bare(f) == SelectSeq(f, LAMBDA ch : ch # " ")
BlanksOutside(f) ==
    \A i \in 1..Len(f) : \A j \in 1..Len(f) : \A k \in 1..Len(f) :
        (i < j /\ j < k /\ f[j] = " ") => (f[i] = " " \/ f[k] = " ")

\* The digits of a field: what follows its sign, if it has one.
DigitsOf(f) ==
    IF Bare(f) # <<>> /\ Bare(f)[1] \in {"+", "-"}
    THEN SubSeq(Bare(f), 2, Len(Bare(f))) ELSE Bare(f)

\* The field writes an integer: an optional sign and at least one digit.
IsInteger(f) ==
    /\ BlanksOutside(f)
    /\ DigitsOf(f) # <<>>
    /\ \A j \in 1..Len(DigitsOf(f)) :
          DigitsOf(f)[j] \in {"0", "1", "2", "3", "4", "5", "6", "7", "8", "9"}

\* The integer a field writes.
IntegerOf(f) ==
    IF Bare(f)[1] = "-" THEN 0 - Weighted(DigitsOf(f), 1)
    ELSE Weighted(DigitsOf(f), 1)

\* The string is X.Y.Z with three integers.
ThreeIntegers(v) ==
    /\ Len(DotsOf(v)) = 2
    /\ \A j \in 1..3 : IsInteger(FieldsOf(v)[j])

\* The field is the decimal numeral of n: no blanks, no plus sign, no
\* leading zero.
NumeralOf(f, n) ==
    /\ IsInteger(f)
    /\ IntegerOf(f) = n
    /\ \A j \in 1..Len(f) : f[j] \notin {" ", "+"}
    /\ Len(DigitsOf(f)) > 1 => DigitsOf(f)[1] # "0"
    /\ (f[1] = "-") = (n < 0)

\* The string is x.y.z, written as numerals.
Writes(v, x, y, z) ==
    /\ Len(DotsOf(v)) = 2
    /\ NumeralOf(FieldsOf(v)[1], x)
    /\ NumeralOf(FieldsOf(v)[2], y)
    /\ NumeralOf(FieldsOf(v)[3], z)

\* C16: bump_version_part on a string X.Y.Z of three integers returns
\* (X+1).0.0 for major, X.(Y+1).0 for minor and X.Y.(Z+1) for patch, and
\* raises ValueError for any other string and for any other part name; main
\* runs uv lock only after it has written the one new version, the bump of
\* the version read from pyproject.toml, to pyproject.toml and to
\* manifest.json, and ends successfully only if uv lock succeeded.
C16_BumpAndWriteBothBeforeLock ==
    LET c == script.call
        v == c.version_str
        X == IntegerOf(FieldsOf(v)[1])
        Y == IntegerOf(FieldsOf(v)[2])
        Z == IntegerOf(FieldsOf(v)[3])
        written ==
            /\ script.pyproject.version = script.locals.new_version
            /\ script.manifest = [state |-> "object",
                                  version |-> script.locals.new_version]
            /\ c.raised = "none"
            /\ c.version_str = script.locals.current_version_pyproject
            /\ c.part_to_bump = script.locals.part
            /\ c.value = script.locals.new_version
    IN  /\ c.raised # "not called" =>
            IF ThreeIntegers(v) /\ c.part_to_bump \in {"major", "minor", "patch"}
            THEN /\ c.raised = "none"
                 /\ c.part_to_bump = "major" => Writes(c.value, X + 1, 0, 0)
                 /\ c.part_to_bump = "minor" => Writes(c.value, X, Y + 1, 0)
                 /\ c.part_to_bump = "patch" => Writes(c.value, X, Y, Z + 1)
            ELSE c.raised = "ValueError"
        /\ script.at = "uv lock" => written /\ script.lock = "not run"
        /\ script.lock # "not run" => written
        /\ script.at = "done" => written /\ script.lock = "ok"

\* C16 witness: the second run of main, for "minor", found 10.0.0 in
\* pyproject.toml, which the first had written for "major" on 9.9.9; it
\* wrote 10.1.0 to both files and uv lock succeeded.
C16_Witness ==
    /\ script.at = "done"
    /\ script.runs = 2
    /\ script.locals.part = "minor"
    /\ script.locals.current_version_pyproject
          = <<"1", "0", ".", "0", ".", "0">>
    /\ script.pyproject.version = <<"1", "0", ".", "1", ".", "0">>
    /\ script.manifest.version = <<"1", "0", ".", "1", ".", "0">>
    /\ script.lock = "ok"

====
